---- MODULE Spec2Model ----
(***************************************************************************)
(* Model of backend.py: the /climate_stats request (parameter check,       *)
(* compute_historical_stats, compute_wind_speed_stats, response), the      *)
(* on-disk cache used by download_file and by the wind job's download      *)
(* step, and the remote services as nondeterministic responders.           *)
(*                                                                         *)
(* Units.  Temperatures are kept in hundredths of a degree (30000 is       *)
(* 300.00 K, 2685 is 26.85 C); precipitation flux in 1e-6 kg m-2 s-1 and   *)
(* precipitation per day in 1e-6 mm (100 * 86400 = 8640000 is 8.64 mm).    *)
(***************************************************************************)
EXTENDS Integers, Sequences, FiniteSets, TLC

\* ------------------------------------------------------------------ bounds

\* Length of the lookback window of a /climate_stats request (years_back;
\* the source passes 15).
YearsBack == 2

\* Largest lookback window compute_historical_stats is called with on its own.
HistYears == 3

\* Calls each caller of the cache operations makes.
MaxCalls == 2

\* ---------------------------------------------------------------- constants

\* Python's None is the empty tuple and a present value v is <<v>>, so that
\* an optional value is a tuple in both cases.
None == <<>>
Some(v) == <<v>>
Val(o) == o[1]

\* datetime.date.today().year
CurrentYear == 2026

\* 'count': 20 of the GetResult request, and the step of startIndex
PageSize == 20

\* Values request.args.get(name, type=...) can yield: None when the
\* parameter is absent or does not convert.
DayArgs == {None, Some(15), Some(30)}
MonthArgs == {None, Some(6)}
LatArgs == {None, Some(40)}
LonArgs == {None, Some(0 - 3)}

\* Field values a daily file can hold (spatial means over the box).
T2MMEANValues == {26000, 31000}
TPRECMAXValues == {10, 100}

\* A daily file holds each variable or lacks it.
Optional(S) == {None} \cup {Some(v) : v \in S}

\* ------------------------------------------------------------------ state

VARIABLES
    pc,                     \* position of the request in climate_stats
    args,                   \* day, month, lat, lon as parsed
    years_back,             \* parameter of compute_historical_stats
    y,                      \* loop variable of compute_historical_stats
    fname,                  \* result of find_file_for_date for year y
    f,                      \* result of download_file for year y
    t2m_vals,
    rainfall_occurrences,
    heat_occurrences,
    avg_t2m,                \* None or <<s, n>>: the mean s / n
    rainfall_freq_percent,
    heat_freq_percent,
    wind_y,                 \* loop variable of compute_wind_speed_stats
    status_resp,            \* None (a fault response) or <<Status>>
    startIndex,             \* results_request['args']['startIndex']
    count,
    total,
    results,                \* the items collected, each known by its index
    urls,                   \* items of the download loop not yet visited
    filenames,
    evaluated,              \* files of the evaluation loop already visited
    high_wind_occurrences,
    avg_wind_speed,
    job,                    \* the remote job: [total, data] once it has results
    pages,                  \* GetResult requests sent for the job (history)
    wind_raised,            \* an exception left compute_wind_speed_stats (history)
    job_failed,             \* a job of this request ended in a status other than Succeeded (history)
    response,               \* None or the HTTP response
    cache,                  \* CACHE_DIR: path -> "complete" | "partial"
    writes,                 \* path -> number of times the path was opened "wb"
    years_checked,          \* years that contributed data (history)
    fetched,                \* years whose download_file returned a path (history)
    listings,               \* year -> listing requests sent in this request (history)
    listing_ok,             \* the last listing request got a 200 response (history)
    missing,                \* variables the last opened file lacked (history)
    gets,                   \* download GET requests sent in this request (history)
    fpc,                    \* caller -> position in download_file
    furl,                   \* caller -> url of the current call
    fret,                   \* caller -> value returned by the last call
    fnet,                   \* caller -> GET requests sent by the last call
    fprev,                  \* caller -> <<url, ret, outcome>> of the call before
    fout,                   \* caller -> outcome of the GET of this call, "none" without one (history)
    calls                   \* caller -> calls made

histVars == <<years_back, y, fname, f, t2m_vals, rainfall_occurrences,
              heat_occurrences, avg_t2m, rainfall_freq_percent, heat_freq_percent,
              years_checked, fetched, listings, listing_ok, missing, gets>>

windVars == <<wind_y, status_resp, startIndex, count, total, results, urls,
              filenames, evaluated, high_wind_occurrences, avg_wind_speed,
              job, pages, wind_raised, job_failed>>

reqVars == <<pc, args, histVars, windVars, response>>

fetchVars == <<fpc, furl, fret, fnet, fprev, fout, calls>>

vars == <<reqVars, cache, writes, fetchVars>>

\* ---------------------------------------------------------------- helpers

RECURSIVE SumSeq(_)
SumSeq(s) == IF s = <<>> THEN 0 ELSE Head(s) + SumSeq(Tail(s))

\* np.mean(vals) if vals else None, kept exact as sum and count
MeanOrNone(vals) ==
    IF vals = <<>> THEN None ELSE <<SumSeq(vals), Len(vals)>>

\* FreqPercent with the division by the length left out
FreqPercentNoMean(occ) ==
    IF occ = <<>> THEN None ELSE Some(SumSeq(occ) * 100)

\* FreqPercent that reports 0 for an empty list
FreqPercentZero(occ) ==
    IF occ = <<>> THEN Some(0) ELSE Some((SumSeq(occ) * 100) \div Len(occ))

\* int(np.mean(occ) * 100) if occ else None: int() truncates toward zero
FreqPercent(occ) ==
    IF occ = <<>> THEN None ELSE Some((SumSeq(occ) * 100) \div Len(occ))

\* f"MERRA2_400.statD_2d_slv_Nx.{YYYYMMDD}.nc4": a file name is known by its tag
DateTag(year, month, day) == <<year, month, day>>
FileName(tag) == <<"MERRA2", tag>>

\* date_tag in f
TagIn(tag, file) == file[2] = tag

\* list_month_files without the test of the status code
list_month_files_any_status(resp) ==
    IF resp.exc THEN <<>> ELSE resp.files

\* list_month_files: the files of a 200 response, [] on any other status or
\* on an exception
list_month_files(resp) ==
    IF resp.exc THEN <<>>
    ELSE IF resp.status = 200 THEN resp.files
    ELSE <<>>

\* find_file_for_date: the first listed file that contains the date tag
RECURSIVE FirstMatch(_, _)
FirstMatch(files, tag) ==
    IF files = <<>> THEN None
    ELSE IF TagIn(tag, Head(files)) THEN Head(files)
    ELSE FirstMatch(Tail(files), tag)

find_file_for_date(resp, year, month, day) ==
    FirstMatch(list_month_files(resp), DateTag(year, month, day))

\* Responses of the directory listing endpoint for (year, month).
ListingResponses(year, month) ==
    LET f15 == FileName(DateTag(year, month, 15))
        f30 == FileName(DateTag(year, month, 30))
    IN  {[exc |-> TRUE, status |-> 0, files |-> <<>>]}
        \cup {[exc |-> FALSE, status |-> s, files |-> fs] :
                s \in {200, 404}, fs \in {<<>>, <<f15>>, <<f15, f30>>}}

\* f"{BASE_URL}/{y}/{month:02d}/{fname}"
Url(year, month, file) == <<"BASE_URL", year, month, file>>

\* os.path.join(CACHE_DIR, url.split("/")[-1])
CachePath(url) == <<"cache", url[Len(url)]>>

\* A presence check that never finds the file
ExistsNever(c, p) == FALSE

\* os.path.exists(filename)
Exists(c, p) == p \in DOMAIN c

Put(c, p, v) == [q \in DOMAIN c \cup {p} |-> IF q = p THEN v ELSE c[q]]

Bump(w, p) == [q \in DOMAIN w \cup {p} |-> IF q = p
                                           THEN (IF p \in DOMAIN w THEN w[p] ELSE 0) + 1
                                           ELSE w[q]]

\* Outcomes of the GET of download_file: a 200 response streamed to the end,
\* another status, an exception before the file is opened (connect, timeout),
\* an exception while the chunks are written (the file is already open).
TransferOutcomes == {"ok", "status", "exc_get", "exc_write"}

\* TransferCache with an except branch that removes the file it left
TransferCacheCleanup(c, p, o) ==
    CASE o = "ok" -> Put(c, p, "complete")
      [] OTHER -> c

\* download_file, lines 70-84: the cache after the attempt
TransferCache(c, p, o) ==
    CASE o = "ok" -> Put(c, p, "complete")
      [] o = "exc_write" -> Put(c, p, "partial")
      [] OTHER -> c

TransferWrites(w, p, o) == IF o \in {"ok", "exc_write"} THEN Bump(w, p) ELSE w

\* download_file, lines 70-84: the value returned
TransferRet(p, o) == IF o = "ok" THEN p ELSE None

\* download_file as one call: [ret, cache, writes, net] for an outcome o of
\* the GET, which is sent only when the path does not exist
download_file(c, w, url, o) ==
    LET p == CachePath(url) IN
    IF Exists(c, p)
    THEN [ret |-> p, cache |-> c, writes |-> w, net |-> 0]
    ELSE [ret |-> TransferRet(p, o), cache |-> TransferCache(c, p, o),
          writes |-> TransferWrites(w, p, o), net |-> 1]

\* extract_daily_averages on an opened data set: Kelvin to Celsius and
\* flux to mm/day
extract_daily_averages(ds) ==
    [t2m |-> Val(ds.T2MMEAN) - 27315, prec |-> Val(ds.TPRECMAX) * 86400]

\* Contents of a complete daily file
DataSets == [T2MMEAN : Optional(T2MMEANValues),
             TPRECMAX : Optional(TPRECMAXValues)]

\* xr.open_dataset and the two subscripts raise on a truncated file or on a
\* missing variable
ExtractRaises(state, ds) ==
    state = "partial" \/ ds.T2MMEAN = None \/ ds.TPRECMAX = None

\* The requested variables a data set lacks
Lacks(ds) == {v \in {"T2MMEAN", "TPRECMAX"} : ds[v] = None}


\* ------------------------------------------------- the subset job service

\* What the job of a year holds once it has succeeded: totalResults items,
\* of which the first `data` carry 'start' and 'end' (the data granules; the
\* others are documentation links).
JobShapes == {[total |-> 0, data |-> 0],
              [total |-> 20, data |-> 1],
              [total |-> 45, data |-> 2]}

NoJob == [total |-> 0, data |-> 0]

Statuses == {"Accepted", "Running", "Succeeded", "Failed"}

\* Replies to a POST of get_http_data: the request raises (transport error,
\* body that is not JSON), the service answers jsonwsp/fault, or it answers
\* with a result carrying Status.
WspReplies == {[kind |-> "exc", Status |-> "-"], [kind |-> "fault", Status |-> "-"]}
              \cup {[kind |-> "ok", Status |-> st] : st \in Statuses}

\* get_http_data, lines 138-141: None on a fault, else the response
get_http_data(reply) == IF reply.kind = "fault" THEN None ELSE Some(reply.Status)

\* The items of the page that starts at index start: at most PageSize of them
PageItems(start, tot) ==
    LET last == IF start + PageSize < tot THEN start + PageSize ELSE tot
    IN  [i \in 1 .. (IF last > start THEN last - start ELSE 0) |-> start + i - 1]

\* result['itemsPerPage'] of a page: the service reports the page size or
\* the number of items of the page
ItemsPerPage(items) == {PageSize, Len(items)}

\* while status in ['Accepted', 'Running']
\* StillRunning as a wait for success
StillRunningUntilSucceeded(status) == status # "Succeeded"

StillRunning(status) == status \in {"Accepted", "Running"}

\* The test of the terminal status left out
NotSucceededNever(status) == FALSE

\* if status != 'Succeeded'
NotSucceeded(status) == status # "Succeeded"

\* The loop condition with <= for <
MorePagesOrEqual(cnt, tot) == cnt <= tot

\* while count < total
MorePages(cnt, tot) == cnt < tot

\* 'start' in item and 'end' in item
IsDataItem(j, i) == i < j.data

\* os.path.join(CACHE_DIR, item['label'])
LabelPath(year, i) == <<"cache", <<"label", year, i>>>>

\* 1 if daily_max > 15 else 0, or the exception of the evaluation of a file
\* (a tile of several cells has no truth value)
WindOutcomes == {"calm", "windy", "exc"}

\* ---------------------------------------------------------------- actions

\* The threads of the server.  Each serves one request after another, so the
\* cache operations of a thread are those of its requests in turn, and those
\* of two threads interleave.
Callers == {"r1", "r2"}

NoUrl == <<>>

FetchIdle ==
    /\ fpc = [c \in Callers |-> "idle"]
    /\ furl = [c \in Callers |-> NoUrl]
    /\ fret = [c \in Callers |-> None]
    /\ fnet = [c \in Callers |-> 0]
    /\ fprev = [c \in Callers |-> <<NoUrl, None, "none">>]
    /\ fout = [c \in Callers |-> "none"]
    /\ calls = [c \in Callers |-> 0]

RequestInit(argset) ==
    /\ args \in argset
    /\ fname = None
    /\ f = None
    /\ t2m_vals = <<>>
    /\ rainfall_occurrences = <<>>
    /\ heat_occurrences = <<>>
    /\ avg_t2m = None
    /\ rainfall_freq_percent = None
    /\ heat_freq_percent = None
    /\ wind_y = CurrentYear
    /\ status_resp = None
    /\ startIndex = 0
    /\ count = 0
    /\ total = 0
    /\ results = <<>>
    /\ urls = <<>>
    /\ filenames = <<>>
    /\ evaluated = 0
    /\ high_wind_occurrences = <<>>
    /\ avg_wind_speed = None
    /\ job = NoJob
    /\ pages = 0
    /\ wind_raised = FALSE
    /\ job_failed = FALSE
    /\ response = None
    /\ years_checked = 0
    /\ fetched = 0
    /\ listings = <<>>
    /\ listing_ok = TRUE
    /\ missing = {}
    /\ gets = 0

\* The path of the daily file of 15 June of a year
DailyPath(yr) == CachePath(Url(yr, 6, FileName(DateTag(yr, 6, 15))))

\* CACHE_DIR as earlier requests and earlier runs left it: some daily files
\* of the given years, each written once, complete or truncated
CacheLeft(yrs) ==
    /\ \E have \in SUBSET yrs :
         cache \in [{DailyPath(yr) : yr \in have} -> {"complete", "partial"}]
    /\ writes = [p \in DOMAIN cache |-> 1]

\* One /climate_stats request on an empty cache directory
Init ==
    /\ pc = "start"
    /\ years_back = YearsBack
    /\ y = CurrentYear
    /\ RequestInit([day : DayArgs, month : MonthArgs, lat : LatArgs, lon : LonArgs])
    /\ CacheLeft({CurrentYear - YearsBack})
    /\ FetchIdle

\* ClimateStatsEntry with a test of day and month only
ClimateStatsEntryDateOnly ==
    /\ pc = "start"
    /\ IF args.day = None \/ args.month = None
       THEN /\ pc' = "done"
            /\ response' = <<400>>
            /\ y' = y
       ELSE /\ pc' = "hist_loop"
            /\ response' = response
            /\ y' = CurrentYear - years_back
    /\ UNCHANGED fetchVars
    /\ UNCHANGED <<args, years_back, listing_ok, missing, fname, f, t2m_vals, rainfall_occurrences, heat_occurrences,
                   avg_t2m, rainfall_freq_percent, heat_freq_percent,
                   years_checked, fetched, listings, gets,
                   windVars, cache, writes>>

\* climate_stats, lines 263-274: parse, reject, or call compute_historical_stats
ClimateStatsEntry ==
    /\ pc = "start"
    /\ IF args.day = None \/ args.month = None \/ args.lat = None \/ args.lon = None
       THEN /\ pc' = "done"
            /\ response' = <<400>>
            /\ y' = y
       ELSE /\ pc' = "hist_loop"
            /\ response' = response
            /\ y' = CurrentYear - years_back
    /\ UNCHANGED fetchVars
    /\ UNCHANGED <<args, years_back, listing_ok, missing, fname, f, t2m_vals, rainfall_occurrences, heat_occurrences,
                   avg_t2m, rainfall_freq_percent, heat_freq_percent,
                   years_checked, fetched, listings, gets,
                   windVars, cache, writes>>

\* HistResolve with one retry of a listing request that raised
HistResolveRetry ==
    /\ pc = "hist_loop"
    /\ y < CurrentYear
    /\ \E resp \in ListingResponses(y, Val(args.month)) :
         LET file == find_file_for_date(resp, y, Val(args.month), Val(args.day)) IN
         /\ fname' = file
         /\ listings' = Bump(listings, y)
         /\ listing_ok' = (~resp.exc /\ resp.status = 200)
         /\ IF file # None
            THEN pc' = "hist_download" /\ y' = y
            ELSE /\ pc' = "hist_loop"
                 /\ y' = IF resp.exc /\ Bump(listings, y)[y] < 2 THEN y ELSE y + 1
    /\ UNCHANGED fetchVars
    /\ UNCHANGED <<args, years_back, missing, f, t2m_vals, rainfall_occurrences,
                   heat_occurrences, avg_t2m, rainfall_freq_percent, heat_freq_percent,
                   years_checked, fetched, gets,
                   windVars, response, cache, writes>>

\* compute_historical_stats, lines 106-109 and 117-118: resolve the file of year y
HistResolve ==
    /\ pc = "hist_loop"
    /\ y < CurrentYear
    /\ \E resp \in ListingResponses(y, Val(args.month)) :
         LET file == find_file_for_date(resp, y, Val(args.month), Val(args.day)) IN
         /\ fname' = file
         /\ listings' = Bump(listings, y)
         /\ listing_ok' = (~resp.exc /\ resp.status = 200)
         /\ IF file # None
            THEN pc' = "hist_download" /\ y' = y
            ELSE pc' = "hist_loop" /\ y' = y + 1
    /\ UNCHANGED fetchVars
    /\ UNCHANGED <<args, years_back, missing, f, t2m_vals, rainfall_occurrences,
                   heat_occurrences, avg_t2m, rainfall_freq_percent, heat_freq_percent,
                   years_checked, fetched, gets,
                   windVars, response, cache, writes>>

\* compute_historical_stats, lines 110-112: download_file for year y
HistDownload ==
    /\ pc = "hist_download"
    /\ \E o \in TransferOutcomes :
         LET r == download_file(cache, writes, Url(y, Val(args.month), fname), o) IN
         /\ f' = r.ret
         /\ cache' = r.cache
         /\ writes' = r.writes
         /\ gets' = gets + r.net
         /\ IF r.ret # None
            THEN pc' = "hist_extract" /\ y' = y /\ fetched' = fetched + 1
            ELSE pc' = "hist_loop" /\ y' = y + 1 /\ fetched' = fetched
    /\ UNCHANGED fetchVars
    /\ UNCHANGED <<args, years_back, listing_ok, missing, fname, t2m_vals,
                   rainfall_occurrences, heat_occurrences,
                   avg_t2m, rainfall_freq_percent, heat_freq_percent,
                   years_checked, listings,
                   windVars, response>>

\* HistExtract with a heat entry for the hot days only
HistExtractHotOnly ==
    /\ pc = "hist_extract"
    /\ \E ds \in DataSets :
         /\ missing' = IF cache[f] = "partial" THEN {} ELSE Lacks(ds)
         /\ IF ExtractRaises(cache[f], ds)
            THEN /\ pc' = "raised"
                 /\ UNCHANGED <<y, t2m_vals, rainfall_occurrences, heat_occurrences>>
            ELSE LET m == extract_daily_averages(ds) IN
                 /\ t2m_vals' = Append(t2m_vals, m.t2m)
                 /\ rainfall_occurrences' =
                      Append(rainfall_occurrences, IF m.prec > 2000000 THEN 1 ELSE 0)
                 /\ heat_occurrences' =
                      IF m.t2m > 3500 THEN Append(heat_occurrences, 1) ELSE heat_occurrences
                 /\ y' = y + 1
                 /\ pc' = "hist_loop"
    /\ UNCHANGED fetchVars
    /\ UNCHANGED <<args, years_back, listing_ok, response, fname, f, avg_t2m, rainfall_freq_percent, heat_freq_percent,
                   years_checked, fetched, listings, gets,
                   windVars, cache, writes>>

\* compute_historical_stats, lines 113-116: extract and append, or the
\* exception of extract_daily_averages leaves compute_historical_stats
HistExtract ==
    /\ pc = "hist_extract"
    /\ \E ds \in DataSets :
         /\ missing' = IF cache[f] = "partial" THEN {} ELSE Lacks(ds)
         /\ IF ExtractRaises(cache[f], ds)
            THEN /\ pc' = "raised"
                 /\ UNCHANGED <<y, t2m_vals, rainfall_occurrences, heat_occurrences>>
            ELSE LET m == extract_daily_averages(ds) IN
                 /\ t2m_vals' = Append(t2m_vals, m.t2m)
                 /\ rainfall_occurrences' =
                      Append(rainfall_occurrences, IF m.prec > 2000000 THEN 1 ELSE 0)
                 /\ heat_occurrences' =
                      Append(heat_occurrences, IF m.t2m > 3500 THEN 1 ELSE 0)
                 /\ y' = y + 1
                 /\ pc' = "hist_loop"
    /\ UNCHANGED fetchVars
    /\ UNCHANGED <<args, years_back, listing_ok, response, fname, f, avg_t2m, rainfall_freq_percent, heat_freq_percent,
                   years_checked, fetched, listings, gets,
                   windVars, cache, writes>>

\* compute_historical_stats, lines 120-122: the three statistics
HistAggregate ==
    /\ pc = "hist_loop"
    /\ y = CurrentYear
    /\ avg_t2m' = MeanOrNone(t2m_vals)
    /\ rainfall_freq_percent' = FreqPercent(rainfall_occurrences)
    /\ heat_freq_percent' = FreqPercent(heat_occurrences)
    /\ years_checked' = Len(t2m_vals)
    /\ pc' = "hist_return"
    /\ UNCHANGED fetchVars
    /\ UNCHANGED <<args, years_back, listing_ok, missing, y, fname, f, t2m_vals,
                   rainfall_occurrences, heat_occurrences, fetched, listings, gets,
                   windVars, response, cache, writes>>


\* compute_historical_stats, line 125, and climate_stats, lines 274-278:
\* the statistics are returned and compute_wind_speed_stats is entered
HistReturn ==
    /\ pc = "hist_return"
    /\ pc' = "wind_loop"
    /\ fname' = None
    /\ f' = None
    /\ t2m_vals' = <<>>
    /\ rainfall_occurrences' = <<>>
    /\ heat_occurrences' = <<>>
    /\ wind_y' = CurrentYear - YearsBack
    /\ high_wind_occurrences' = <<>>
    /\ UNCHANGED fetchVars
    /\ UNCHANGED <<args, years_back, listing_ok, missing, y, avg_t2m, rainfall_freq_percent, heat_freq_percent,
                   years_checked, fetched, listings, gets,
                   status_resp, startIndex, count, total, results, urls, filenames,
                   evaluated, avg_wind_speed, job, pages, wind_raised, job_failed,
                   response, cache, writes>>

\* The locals of the body of the year loop at the loop head.  Each is
\* assigned before it is read again (lines 192, 203-209, 217-218), so the
\* value the year before left in it is never seen.
WindBodyFresh ==
    /\ status_resp' = None
    /\ startIndex' = 0
    /\ count' = 0
    /\ total' = 0
    /\ results' = <<>>
    /\ urls' = <<>>
    /\ filenames' = <<>>
    /\ evaluated' = 0
    /\ job' = NoJob
    /\ pages' = 0

\* compute_wind_speed_stats is left, by return or by an exception: its
\* locals are gone
WindLocalsGone ==
    /\ wind_y' = CurrentYear
    /\ high_wind_occurrences' = <<>>
    /\ WindBodyFresh

\* WindRaise without the try/except of lines 277-281: the exception reaches
\* the server, as one of compute_historical_stats does
WindRaisePropagates ==
    /\ pc' = "raised"
    /\ avg_wind_speed' = None
    /\ wind_raised' = TRUE
    /\ job_failed' = job_failed
    /\ WindLocalsGone

\* An exception leaves compute_wind_speed_stats: climate_stats, lines 279-281
WindRaise ==
    /\ pc' = "respond"
    /\ avg_wind_speed' = None
    /\ wind_raised' = TRUE
    /\ job_failed' = job_failed
    /\ WindLocalsGone

\* The year loop goes on (`continue`, or the end of the loop body)
WindNextYear ==
    /\ pc' = "wind_loop"
    /\ wind_y' = wind_y + 1
    /\ WindBodyFresh

\* compute_wind_speed_stats, lines 164-192: submit the job of year wind_y
WindSubmit ==
    /\ pc = "wind_loop"
    /\ wind_y < CurrentYear
    /\ \E reply \in WspReplies :
         IF reply.kind = "exc"
         THEN WindRaise
         ELSE /\ IF get_http_data(reply) = None
                 THEN WindNextYear
                 ELSE /\ status_resp' = get_http_data(reply)
                      /\ pc' = "wind_status"
                      /\ UNCHANGED <<wind_y, startIndex, count, total, results, urls,
                                     filenames, evaluated, job, pages>>
              /\ UNCHANGED <<high_wind_occurrences, avg_wind_speed, wind_raised, job_failed>>
    /\ UNCHANGED fetchVars
    /\ UNCHANGED <<args, histVars, response, cache, writes>>

\* lines 193 and 197-205: the loop condition on the last status response
\* (None has no subscript), then the test for Succeeded
WindStatus ==
    /\ pc = "wind_status"
    /\ IF status_resp = None
       THEN WindRaise
       ELSE /\ IF StillRunning(Val(status_resp))
               THEN /\ pc' = "wind_sleep"
                    /\ UNCHANGED <<wind_y, startIndex, count, results>>
                    /\ UNCHANGED <<status_resp, total, urls, filenames, evaluated,
                                   job, pages, job_failed>>
               ELSE IF NotSucceeded(Val(status_resp))
               THEN /\ WindNextYear
                    /\ job_failed' = TRUE
               ELSE /\ pc' = "wind_page"
                    /\ startIndex' = 0
                    /\ count' = 0
                    /\ results' = <<>>
                    /\ UNCHANGED <<wind_y, status_resp, total, urls, filenames,
                                   evaluated, job, pages, job_failed>>
            /\ UNCHANGED <<high_wind_occurrences, avg_wind_speed, wind_raised>>
    /\ UNCHANGED fetchVars
    /\ UNCHANGED <<args, histVars, response, cache, writes>>

\* lines 194-195: sleep(5), then GetStatus
WindPoll ==
    /\ pc = "wind_sleep"
    /\ \E reply \in WspReplies :
         IF reply.kind = "exc"
         THEN WindRaise
         ELSE /\ status_resp' = get_http_data(reply)
              /\ pc' = "wind_status"
              /\ UNCHANGED <<wind_y, startIndex, count, total, results, urls,
                             filenames, evaluated, high_wind_occurrences,
                             avg_wind_speed, job, pages, wind_raised, job_failed>>
    /\ UNCHANGED fetchVars
    /\ UNCHANGED <<args, histVars, response, cache, writes>>

\* One GetResult request at index start for a job j, and the three updates
\* that follow it (lines 206-209, 213-215); a fault response is None and the
\* subscript of None raises
GetResultPage(j, start) ==
    \E kind \in {"exc", "fault", "ok"} :
      IF kind # "ok"
      THEN WindRaise
      ELSE LET items == PageItems(start, j.total) IN
           /\ \E ipp \in ItemsPerPage(items) : count' = count + ipp
           /\ results' = results \o items
           /\ total' = j.total
           /\ startIndex' = start
           /\ job' = j
           /\ pages' = pages + 1
           /\ pc' = "wind_pages"
           /\ UNCHANGED <<wind_y, status_resp, urls, filenames, evaluated,
                          high_wind_occurrences, avg_wind_speed, wind_raised, job_failed>>

\* lines 206-209: the first page; the job's results are those of some shape
WindFirstPage ==
    /\ pc = "wind_page"
    /\ \E j \in JobShapes : GetResultPage(j, startIndex)
    /\ UNCHANGED fetchVars
    /\ UNCHANGED <<args, histVars, response, cache, writes>>

\* lines 211-215: one more page while count < total
WindNextPage ==
    /\ pc = "wind_pages"
    /\ MorePages(count, total)
    /\ GetResultPage(job, startIndex + PageSize)
    /\ UNCHANGED fetchVars
    /\ UNCHANGED <<args, histVars, response, cache, writes>>

\* lines 211 and 217-218: the loop ends, the data items are selected
WindPagesDone ==
    /\ pc = "wind_pages"
    /\ ~MorePages(count, total)
    /\ urls' = SelectSeq(results, LAMBDA i : IsDataItem(job, i))
    /\ filenames' = <<>>
    /\ pc' = "wind_download"
    /\ UNCHANGED fetchVars
    /\ UNCHANGED <<args, histVars, wind_y, status_resp, startIndex, count, total,
                   results, evaluated, high_wind_occurrences, avg_wind_speed, job,
                   pages, wind_raised, job_failed, response, cache, writes>>

\* lines 219-227: open the link of the next item, write its body under the label
WindDownload ==
    /\ pc = "wind_download"
    /\ urls # <<>>
    /\ \E ok \in BOOLEAN :
         IF ok
         THEN LET file_name == LabelPath(wind_y, Head(urls)) IN
              /\ cache' = Put(cache, file_name, "complete")
              /\ writes' = Bump(writes, file_name)
              /\ filenames' = Append(filenames, file_name)
              /\ urls' = Tail(urls)
              /\ pc' = "wind_download"
              /\ UNCHANGED <<wind_y, status_resp, startIndex, count, total, results,
                             evaluated, high_wind_occurrences, avg_wind_speed, job,
                             pages, wind_raised, job_failed>>
         ELSE WindRaise /\ UNCHANGED <<cache, writes>>
    /\ UNCHANGED fetchVars
    /\ UNCHANGED <<args, histVars, response>>

\* line 219 exhausted, line 229 entered
WindDownloadDone ==
    /\ pc = "wind_download"
    /\ urls = <<>>
    /\ evaluated' = 0
    /\ pc' = "wind_eval"
    /\ UNCHANGED fetchVars
    /\ UNCHANGED <<args, histVars, wind_y, status_resp, startIndex, count, total,
                   results, urls, filenames, high_wind_occurrences, avg_wind_speed,
                   job, pages, wind_raised, job_failed, response, cache, writes>>

\* lines 229-237: one file of the evaluation loop
WindEval ==
    /\ pc = "wind_eval"
    /\ evaluated < Len(filenames)
    /\ \E o \in WindOutcomes :
         IF o = "exc"
         THEN WindRaise
         ELSE /\ high_wind_occurrences' =
                   Append(high_wind_occurrences, IF o = "windy" THEN 1 ELSE 0)
              /\ evaluated' = evaluated + 1
              /\ pc' = "wind_eval"
              /\ UNCHANGED <<wind_y, status_resp, startIndex, count, total, results,
                             urls, filenames, avg_wind_speed, job, pages, wind_raised, job_failed>>
    /\ UNCHANGED fetchVars
    /\ UNCHANGED <<args, histVars, response, cache, writes>>

\* line 229 exhausted: the body of the year loop ends
WindYearDone ==
    /\ pc = "wind_eval"
    /\ evaluated = Len(filenames)
    /\ WindNextYear
    /\ UNCHANGED fetchVars
    /\ UNCHANGED <<args, histVars, high_wind_occurrences, avg_wind_speed,
                   wind_raised, job_failed, response, cache, writes>>

\* lines 239-242: the frequency over the collected values
WindReturn ==
    /\ pc = "wind_loop"
    /\ wind_y = CurrentYear
    /\ avg_wind_speed' = FreqPercent(high_wind_occurrences)
    /\ pc' = "respond"
    /\ WindLocalsGone
    /\ UNCHANGED fetchVars
    /\ UNCHANGED <<args, histVars, wind_raised, job_failed, response, cache, writes>>

\* climate_stats, line 274: nothing catches an exception of
\* compute_historical_stats, and the request ends with HTTP 500
Unhandled ==
    /\ pc = "raised"
    /\ response' = <<500>>
    /\ pc' = "done"
    /\ UNCHANGED fetchVars
    /\ UNCHANGED <<args, histVars, windVars, cache, writes>>

\* PrecipLabel with the comparison of line 284 turned round
PrecipLabelWarm(avg) ==
    IF avg # None /\ avg[1] > (0 - 500) * avg[2]
    THEN "snow_hail_freq_percent"
    ELSE "rainfall_gt_2mm_freq_percent"

\* climate_stats, lines 283-289: the label of the precipitation statistic
PrecipLabel(avg) ==
    IF avg # None /\ avg[1] < (0 - 500) * avg[2]
    THEN "snow_hail_freq_percent"
    ELSE "rainfall_gt_2mm_freq_percent"

\* climate_stats, lines 283-301: the JSON response
Respond ==
    /\ pc = "respond"
    /\ response' = <<200, avg_t2m, PrecipLabel(avg_t2m), rainfall_freq_percent,
                     heat_freq_percent, avg_wind_speed>>
    /\ pc' = "done"
    /\ UNCHANGED fetchVars
    /\ UNCHANGED <<args, histVars, windVars, cache, writes>>

Next ==
    \/ ClimateStatsEntry
    \/ HistResolve
    \/ HistDownload
    \/ HistExtract
    \/ HistAggregate
    \/ HistReturn
    \/ Unhandled
    \/ WindSubmit
    \/ WindStatus
    \/ WindPoll
    \/ WindFirstPage
    \/ WindNextPage
    \/ WindPagesDone
    \/ WindDownload
    \/ WindDownloadDone
    \/ WindEval
    \/ WindYearDone
    \/ WindReturn
    \/ Respond

Spec == Init /\ [][Next]_vars

\* The request thread keeps running: a step that can be taken is taken
FairSpec == Spec /\ WF_vars(Next)

\* -------------------------------------------- the cache under several callers

\* The urls the callers fetch: the daily files of the window for one date
FetchUrls == {Url(yr, 6, FileName(DateTag(yr, 6, 15))) :
                yr \in (CurrentYear - 2) .. (CurrentYear - 1)}

\* The labels of the items the callers store: one item of the job of a year
FetchLabels == {LabelPath(CurrentYear - 1, 0)}

\* download_file, lines 66-69: the deterministic path and the presence check
FetchCall(c, u) ==
    /\ fpc[c] \in {"idle", "returned"}
    /\ calls[c] < MaxCalls
    /\ calls' = [calls EXCEPT ![c] = @ + 1]
    /\ furl' = [furl EXCEPT ![c] = u]
    /\ fprev' = [fprev EXCEPT ![c] = <<furl[c], fret[c], fout[c]>>]
    /\ fout' = [fout EXCEPT ![c] = "none"]
    /\ fnet' = [fnet EXCEPT ![c] = 0]
    /\ IF Exists(cache, CachePath(u))
       THEN /\ fret' = [fret EXCEPT ![c] = CachePath(u)]
            /\ fpc' = [fpc EXCEPT ![c] = "returned"]
       ELSE /\ fret' = [fret EXCEPT ![c] = None]
            /\ fpc' = [fpc EXCEPT ![c] = "get"]
    /\ UNCHANGED <<reqVars, cache, writes>>

\* download_file, lines 70-84: the GET and what follows it
FetchTransfer(c) ==
    /\ fpc[c] = "get"
    /\ \E o \in TransferOutcomes :
         LET p == CachePath(furl[c]) IN
         /\ cache' = TransferCache(cache, p, o)
         /\ writes' = TransferWrites(writes, p, o)
         /\ fret' = [fret EXCEPT ![c] = TransferRet(p, o)]
         /\ fout' = [fout EXCEPT ![c] = o]
    /\ fnet' = [fnet EXCEPT ![c] = 1]
    /\ fpc' = [fpc EXCEPT ![c] = "returned"]
    /\ UNCHANGED <<reqVars, furl, fprev, calls>>

\* compute_wind_speed_stats, lines 220-227: the body of an item is written
\* under its label
FetchStore(c, p) ==
    /\ fpc[c] \in {"idle", "returned"}
    /\ calls[c] < MaxCalls
    /\ calls' = [calls EXCEPT ![c] = @ + 1]
    /\ cache' = Put(cache, p, "complete")
    /\ writes' = Bump(writes, p)
    /\ furl' = [furl EXCEPT ![c] = NoUrl]
    /\ fprev' = [fprev EXCEPT ![c] = <<furl[c], fret[c], fout[c]>>]
    /\ fout' = [fout EXCEPT ![c] = "none"]
    /\ fret' = [fret EXCEPT ![c] = p]
    /\ fnet' = [fnet EXCEPT ![c] = 1]
    /\ fpc' = [fpc EXCEPT ![c] = "returned"]
    /\ UNCHANGED reqVars

InitFetch ==
    /\ pc = "start"
    /\ years_back = YearsBack
    /\ y = CurrentYear
    /\ RequestInit([day : {None}, month : {None}, lat : {None}, lon : {None}])
    /\ cache = <<>>
    /\ writes = <<>>
    /\ FetchIdle

NextFetch ==
    \/ \E c \in Callers, u \in FetchUrls : FetchCall(c, u)
    \/ \E c \in Callers : FetchTransfer(c)
    \/ \E c \in Callers, p \in FetchLabels : FetchStore(c, p)

SpecFetch == InitFetch /\ [][NextFetch]_vars

\* ------------------------------------ compute_historical_stats on its own

\* compute_historical_stats(day, month, lat, lon, years_back) called with a
\* window of up to HistYears years, on a cache directory earlier calls left
InitHist ==
    /\ pc = "hist_loop"
    /\ years_back \in 0 .. HistYears
    /\ RequestInit([day : DayArgs \ {None}, month : MonthArgs \ {None},
                    lat : LatArgs \ {None}, lon : LonArgs \ {None}])
    /\ y = CurrentYear - years_back
    /\ CacheLeft((CurrentYear - years_back) .. (CurrentYear - 1))
    /\ FetchIdle

NextHist ==
    \/ HistResolve
    \/ HistDownload
    \/ HistExtract
    \/ HistAggregate

SpecHist == InitHist /\ [][NextHist]_vars

\* ------------------------------------------------------------ properties

PercentOK(p) == p = None \/ Val(p) \in 0 .. 100

\* C1: the aggregation counts at most years_back years with data, and each
\* reported frequency (precipitation, heat, wind) is None or an integer in
\* 0..100, whatever the outcome of each year.
C1_ReportBounded ==
    /\ years_checked <= years_back
    /\ Len(t2m_vals) <= years_back
    /\ PercentOK(rainfall_freq_percent)
    /\ PercentOK(heat_freq_percent)
    /\ PercentOK(avg_wind_speed)
    /\ Len(response) = 6 =>
         /\ PercentOK(response[4]) /\ PercentOK(response[5]) /\ PercentOK(response[6])

C1_Witness ==
    /\ pc = "done"
    /\ Len(response) = 6
    /\ years_checked = years_back
    /\ response[4] = Some(50)
    /\ response[5] = Some(0)
    /\ response[6] = Some(100)

\* C2: when no year of the window yields a file (the listing fails, no file
\* matches, or download_file returns None), compute_historical_stats neither
\* raises nor stops before its return, and it returns None for the average
\* temperature, the precipitation frequency and the heat frequency, with no
\* year counted.
C2_AllYearsFail ==
    fetched = 0 =>
      /\ pc # "raised"
      /\ pc = "hist_return" \/ ENABLED NextHist
      /\ pc = "hist_return" =>
           /\ avg_t2m = None
           /\ rainfall_freq_percent = None
           /\ heat_freq_percent = None
           /\ years_checked = 0

C2_Witness ==
    /\ pc = "hist_return"
    /\ years_back = HistYears
    /\ fetched = 0
    /\ gets >= 1
    /\ ~listing_ok

WindPcs == {"wind_loop", "wind_status", "wind_sleep", "wind_page", "wind_pages",
            "wind_download", "wind_eval"}

\* C3: a failure in the job of one year skips that year only: the wind
\* computation ends only once the loop has visited every year of the window,
\* and the frequency it returns is the one of the values collected.
C3_FailureSkipsOneYear ==
    [][(pc \in WindPcs /\ pc' = "respond") =>
         /\ wind_y = CurrentYear
         /\ avg_wind_speed' = FreqPercent(high_wind_occurrences)]_vars

\* C4: the polling loop of a job always ends, also when every status
\* response says Running or Accepted.
C4_PollingTerminates ==
    (pc = "wind_sleep") ~> (pc \notin {"wind_sleep", "wind_status"})

CeilDiv(a, b) == (a + b - 1) \div b

Max(a, b) == IF a > b THEN a ELSE b

Min(a, b) == IF a < b THEN a ELSE b

\* C5 (as amended): the pages are requested at startIndex 0, 20, 40, ...; when
\* the pagination loop is over, max(1, ceil(totalResults / 20)) GetResult
\* requests were sent (the first page is requested before totalResults is
\* known) and the combined list holds exactly totalResults items.
C5_PaginationFetches ==
    /\ pc = "wind_pages" =>
         /\ pages >= 1
         /\ startIndex = PageSize * (pages - 1)
         /\ Len(results) = Min(total, PageSize * pages)
    /\ pc \in {"wind_download", "wind_eval"} =>
         /\ pages = Max(1, CeilDiv(total, PageSize))
         /\ Len(results) = total

C5_Witness ==
    /\ pc = "wind_download"
    /\ total = 45
    /\ pages = 3
    /\ startIndex = 40
    /\ Len(results) = 45

\* C5 (as stated): when the pagination loop is over, exactly
\* ceil(totalResults / 20) GetResult requests were sent and the combined
\* list holds totalResults items.
C5_CeilFetches ==
    pc \in {"wind_download", "wind_eval"} =>
      /\ pages = CeilDiv(total, PageSize)
      /\ Len(results) = total

\* C6: when a call of download_file(url) has returned a local path, the next
\* call on the same url returns the same path and sends no request.
C6_FetchIdempotent ==
    \A c \in Callers :
      (/\ fpc[c] = "returned"
       /\ furl[c] # NoUrl
       /\ fprev[c][1] = furl[c]
       /\ fprev[c][2] # None) =>
         /\ fret[c] = fprev[c][2]
         /\ fret[c] = CachePath(furl[c])
         /\ fnet[c] = 0

C6_Witness ==
    \E c \in Callers :
      /\ fpc[c] = "returned"
      /\ calls[c] = 2
      /\ furl[c] # NoUrl
      /\ fprev[c][1] = furl[c]
      /\ fprev[c][2] = CachePath(furl[c])
      /\ fret[c] = CachePath(furl[c])
      /\ fnet[c] = 0
      /\ writes[CachePath(furl[c])] = 1

\* C7: every path of the cache directory is written at most once, whatever
\* the interleaving of the requests.
C7_WrittenOnce ==
    \A p \in DOMAIN writes : writes[p] <= 1

\* round() of Python: to the nearest integer, a tie to the even one
RoundHalfEven(num, den) ==
    LET q == num \div den
        r == num % den
    IN  IF 2 * r < den THEN q
        ELSE IF 2 * r > den THEN q + 1
        ELSE IF q % 2 = 0 THEN q ELSE q + 1

RoundPercent(occ) ==
    IF occ = <<>> THEN None ELSE Some(RoundHalfEven(100 * SumSeq(occ), Len(occ)))

\* C8: the precipitation and the heat frequency returned are round(100 * k / n)
\* for the k of n collected years above the threshold, None for no year.
C8_RoundedPercent ==
    pc = "hist_return" =>
      /\ rainfall_freq_percent = RoundPercent(rainfall_occurrences)
      /\ heat_freq_percent = RoundPercent(heat_occurrences)

\* C9: a file that lacks a requested variable is no error: nothing is raised,
\* the loop goes on, and the metric of the variable the file does hold is
\* collected for that year.
C9_MissingVariableTolerated ==
    missing # {} =>
      /\ pc # "raised"
      /\ missing = {"TPRECMAX"} => Len(t2m_vals) > Len(rainfall_occurrences)
      /\ missing = {"T2MMEAN"} => Len(rainfall_occurrences) > Len(t2m_vals)

\* C10: a listing request that fails (exception or status other than 200)
\* yields no file for the year: no download is attempted, nothing is
\* appended to a list, nothing is written, and the loop stands at the next year.
C10_ListingSoftFailure ==
    [][(pc = "hist_loop" /\ listings' # listings /\ ~listing_ok') =>
         /\ fname' = None
         /\ pc' = "hist_loop"
         /\ y' = y + 1
         /\ gets' = gets
         /\ fetched' = fetched
         /\ UNCHANGED <<t2m_vals, rainfall_occurrences, heat_occurrences,
                        cache, writes>>]_vars

C10_Witness ==
    /\ ~listing_ok
    /\ pc = "hist_loop"
    /\ y = CurrentYear - years_back + 1
    /\ y < CurrentYear
    /\ listings[y - 1] = 1
    /\ gets = 0
    /\ t2m_vals = <<>>

\* C11: a GetResult request is sent, an item is downloaded and a file is
\* evaluated only for a job whose last status response said Succeeded; a job
\* that ended with another status has no page, no item and no file.
C11_OnlySucceededJobsYieldData ==
    (\/ pc \in {"wind_page", "wind_pages", "wind_download", "wind_eval"}
     \/ pages > 0
     \/ results # <<>>
     \/ urls # <<>>
     \/ filenames # <<>>) => status_resp = Some("Succeeded")

C11_Witness ==
    /\ pc = "wind_eval"
    /\ status_resp = Some("Succeeded")
    /\ wind_y = CurrentYear - 1
    /\ high_wind_occurrences = <<>>
    /\ pages = 3
    /\ Len(filenames) = 2

\* Years of the window whose loop body the wind computation has entered
WindYearsEntered ==
    IF pc = "wind_loop"
    THEN wind_y - (CurrentYear - YearsBack)
    ELSE wind_y - (CurrentYear - YearsBack) + 1

\* C12: each year of the window contributes at most one entry to
\* high_wind_occurrences, so the list never holds more entries than years
\* entered, nor more than years_back.
C12_OneEntryPerYear ==
    pc \in WindPcs =>
      /\ Len(high_wind_occurrences) <= WindYearsEntered
      /\ Len(high_wind_occurrences) <= YearsBack

\* The three historical results and the response that carries them
HistResults == <<avg_t2m, rainfall_freq_percent, heat_freq_percent>>

CarriesHistResults ==
    /\ Len(response) = 6
    /\ response[1] = 200
    /\ response[2] = avg_t2m
    /\ response[4] = rainfall_freq_percent
    /\ response[5] = heat_freq_percent

\* C13 (as stated): after a job that ended in a status other than Succeeded,
\* or after an exception in the wind computation, the response is produced,
\* its wind value is None, and its average temperature, precipitation
\* frequency and heat frequency are the values compute_historical_stats
\* returned.
C13_WindFailureGivesNone ==
    (pc = "done" /\ (wind_raised \/ job_failed))
      => CarriesHistResults /\ response[6] = None

\* C13 (amended): the wind computation never changes the three historical
\* results; after an exception in it the response is produced with these
\* results and a wind value of None; after a job that ended in a status
\* other than Succeeded the response is produced with these results, and its
\* wind value is the one the other years gave.
C13_WindFailureWindOnly ==
    /\ [][(pc \in WindPcs \cup {"respond"}) => HistResults' = HistResults]_vars
    /\ [](wind_raised => pc \in {"respond", "done"} /\ avg_wind_speed = None)
    /\ []((pc = "done" /\ (wind_raised \/ job_failed))
            => /\ CarriesHistResults
               /\ response[6] = avg_wind_speed
               /\ (wind_raised => response[6] = None))

C13_Witness ==
    /\ pc = "done" /\ wind_raised /\ job_failed
    /\ response = <<200, avg_t2m, PrecipLabel(avg_t2m), Some(50), Some(0), None>>
    /\ avg_t2m # None

\* C14: within one request at most one directory-listing request is sent for
\* each year of the window (the month is the one of the request).
C14_OneListingPerYearMonth ==
    \A yr \in DOMAIN listings : listings[yr] <= 1

C14_Witness ==
    /\ pc = "done"
    /\ DOMAIN listings = (CurrentYear - YearsBack)..(CurrentYear - 1)
    /\ \A yr \in DOMAIN listings : listings[yr] = 1

\* Some required parameter is absent or does not convert (line 269)
ParameterError ==
    args.day = None \/ args.month = None \/ args.lat = None \/ args.lon = None

\* C15: when any of day, month, lat, lon is absent or malformed, the request
\* ends with HTTP 400 and never leaves the entry of climate_stats: no listing
\* request, no download and no job submit has been issued (the historical and
\* the wind computation, which alone issue them, are never entered), and
\* no cache file has been written.
C15_ParameterErrorBeforeNetwork ==
    ParameterError =>
      /\ pc \in {"start", "done"}
      /\ pc = "done" => response = <<400>>
      /\ pc = "start" => ENABLED ClimateStatsEntry
      /\ listings = <<>> /\ gets = 0 /\ years_checked = 0 /\ fetched = 0
      /\ job = NoJob /\ status_resp = None /\ pages = 0
      /\ \A p \in DOMAIN writes : writes[p] = 1

C15_Witness ==
    /\ pc = "done" /\ response = <<400>>
    /\ args.day # None /\ args.month # None /\ args.lat = None /\ args.lon # None
    /\ listings = <<>> /\ gets = 0

\* C16: a 200 response carries the precipitation statistic under the
\* snow/hail label exactly when the average temperature is defined and below
\* -5 C (sum of n values in hundredths of a degree below -500 * n), under the
\* rainfall label otherwise, and in both cases the value is the rainfall
\* frequency the aggregation returned.
C16_LabelDisplayOnly ==
    (pc = "done" /\ Len(response) = 6) =>
      /\ response[3] \in {"snow_hail_freq_percent", "rainfall_gt_2mm_freq_percent"}
      /\ response[3] = "snow_hail_freq_percent"
           <=> (response[2] # None /\ response[2][1] < (0 - 500) * response[2][2])
      /\ response[4] = rainfall_freq_percent

C16_Witness ==
    /\ pc = "done" /\ Len(response) = 6
    /\ response[3] = "snow_hail_freq_percent"
    /\ response[2] = <<(26000 - 27315) * 2, 2>>
    /\ response[4] = Some(50)

\* C17: a download that ends on a status other than 200 returns None and
\* leaves the cache directory as it was, and the next fetch of the url by
\* that caller sends a request again while no other call has created the
\* file; a download that raises after the file was opened returns None and
\* leaves the file, no file is ever deleted, and every fetch of a url whose
\* file exists returns its path without a request and without writing.
C17_FailedDownloadCache ==
    /\ [](\A c \in Callers :
            (fpc[c] = "returned" /\ fout[c] = "status") => fret[c] = None)
    /\ [][\A c \in Callers :
            (fpc[c] = "get" /\ fout'[c] = "status")
              => cache' = cache /\ writes' = writes]_vars
    /\ [][\A c \in Callers :
            (/\ fpc[c] = "returned" /\ fout[c] = "status"
             /\ calls'[c] # calls[c] /\ furl'[c] = furl[c]
             /\ CachePath(furl[c]) \notin DOMAIN cache)
              => fpc'[c] = "get"]_vars
    /\ [](\A c \in Callers :
            (fpc[c] = "returned" /\ fout[c] = "exc_write")
              => fret[c] = None /\ CachePath(furl[c]) \in DOMAIN cache)
    /\ [][DOMAIN cache \subseteq DOMAIN cache']_vars
    /\ [][\A c \in Callers :
            (/\ calls'[c] # calls[c] /\ furl'[c] # NoUrl
             /\ CachePath(furl'[c]) \in DOMAIN cache)
              => /\ fret'[c] = CachePath(furl'[c])
                 /\ fnet'[c] = 0
                 /\ fpc'[c] = "returned"
                 /\ cache' = cache /\ writes' = writes]_vars

C17_Witness ==
    \E c \in Callers :
      /\ fpc[c] = "returned"
      /\ furl[c] # NoUrl
      /\ fprev[c] = <<furl[c], None, "exc_write">>
      /\ fret[c] = CachePath(furl[c])
      /\ fnet[c] = 0
      /\ cache[CachePath(furl[c])] = "partial"

\* The status responses after which line 193 lets a GetStatus be sent
Pollable == {Some("Accepted"), Some("Running")}

\* C18: a GetStatus request is about to be sent only while the last status
\* response of the job, the submit response at first, says Accepted or
\* Running; the wait is entered only from the test of that response, for the
\* same job, and never after a response with another status.
C18_PollOnlyWhileRunning ==
    /\ [](pc = "wind_sleep" => status_resp \in Pollable)
    /\ [][pc' = "wind_sleep"
            => /\ pc = "wind_status"
               /\ status_resp \in Pollable
               /\ status_resp' = status_resp
               /\ wind_y' = wind_y]_vars
    /\ [][(pc = "wind_status" /\ status_resp \notin Pollable)
            => pc' # "wind_sleep"]_vars

C18_Witness ==
    /\ pc = "wind_sleep"
    /\ status_resp = Some("Running")
    /\ wind_y = CurrentYear - 1
    /\ job_failed

\* C19: in compute_historical_stats the temperature list, the
\* precipitation-occurrence list and the heat-occurrence list always have the
\* same length, and of the average temperature, the precipitation frequency
\* and the heat frequency either all are None or none is.
C19_AllOrNone ==
    /\ Len(t2m_vals) = Len(rainfall_occurrences)
    /\ Len(rainfall_occurrences) = Len(heat_occurrences)
    /\ (avg_t2m = None) <=> (rainfall_freq_percent = None)
    /\ (rainfall_freq_percent = None) <=> (heat_freq_percent = None)
    /\ pc = "hist_return" => ((avg_t2m = None) <=> (t2m_vals = <<>>))

C19_Witness ==
    /\ pc = "hist_return"
    /\ years_back = HistYears
    /\ Len(t2m_vals) = 2 /\ Len(rainfall_occurrences) = 2 /\ Len(heat_occurrences) = 2
    /\ avg_t2m # None /\ rainfall_freq_percent = Some(50) /\ heat_freq_percent = Some(0)

\* The years the two loops range over (lines 106 and 164)
Window == (CurrentYear - years_back) .. (CurrentYear - 1)

HistPcs == {"hist_loop", "hist_download", "hist_extract"}

\* The years are taken in ascending order, one at a time, each at most once,
\* and the current year is never queried: a listing request is sent for the
\* year after the years queried so far, a download, an extraction or a job
\* is of a year of the window, and the loop variables only step by one,
\* between the cycle of one year and the next
C20_Ascending ==
    /\ [](/\ DOMAIN listings \subseteq Window
          /\ \A yr \in DOMAIN listings : listings[yr] = 1
          /\ pc \in {"hist_download", "hist_extract"} => y \in DOMAIN listings
          /\ pc \in WindPcs \ {"wind_loop"} => wind_y \in Window)
    /\ [][listings' # listings
            => /\ DOMAIN listings = (CurrentYear - years_back) .. (y - 1)
               /\ DOMAIN listings' = DOMAIN listings \cup {y}]_vars
    /\ [][(pc \in HistPcs /\ y' # y) => (y' = y + 1 /\ pc' = "hist_loop")]_vars
    /\ [][(pc \in WindPcs /\ pc' \in WindPcs /\ wind_y' # wind_y)
            => (wind_y' = wind_y + 1 /\ pc' = "wind_loop")]_vars

\* Every year of the window is visited: each loop is left only after the
\* last year
C20_EveryYear ==
    /\ []((~ParameterError /\ pc \notin HistPcs \cup {"start"})
            => DOMAIN listings = Window)
    /\ [][(pc \in WindPcs /\ pc' \notin WindPcs) => wind_y = CurrentYear]_vars

\* C20: each year loop visits exactly the years current_year - years_back ..
\* current_year - 1, each once, in ascending order, one at a time, the cycle
\* of a year ending before a request for the next year is sent; the current
\* year is never queried.
C20_YearLoopVisitsWindow == C20_Ascending /\ C20_EveryYear

====
